---- MODULE Spec2Model ----
(***************************************************************************)
(* Model of external-dns-sdk: the endpoint diff engine (src/src/lib.rs),   *)
(* the Changes <-> Vec<Change> conversions (src/src/lib.rs), the webhook   *)
(* client (src/src/client.rs) and the axum dispatcher                      *)
(* (src/src/provider.rs), and the example in-memory provider of the       *)
(* end-to-end test (src/tests/e2e.rs) behind that dispatcher.              *)
(***************************************************************************)
EXTENDS Integers, Sequences, FiniteSets, TLC

VARIABLES
    pc,         \* position of the run under check
    current,    \* `self` of EndpointDiff::difference
    desired,    \* `other` of EndpointDiff::difference
    changes,    \* current.difference(desired)
    swapped,    \* desired.difference(current)
    unionDiff,  \* current.difference(current ++ desired)
    value,      \* a Vec<Change> handed to Changes::from
    batch,      \* a Changes batch
    out,        \* Vec::<Change>::from(batch)
    domain,     \* Client.domain, the configured prefix
    call,       \* the client operation in progress
    request,    \* the request in flight
    invoked,    \* the provider capability the dispatcher invoked
    returned,   \* what that capability returned
    response,   \* the response in flight
    result,     \* what the client operation returned
    inner,      \* DebugProvider.inner, the Vec<Endpoint> behind the RwLock
    task,       \* the request each server task is handling, and how far it is
    serial,     \* TRUE when the caller awaits each response before the next request
    arrived     \* number of requests the server has received

diffVars == <<current, desired, changes, swapped, unionDiff>>
convVars == <<value, batch, out>>
wireVars == <<domain, call, request, invoked, returned, response, result>>
provVars == <<inner, task, serial, arrived>>
vars == <<pc, diffVars, convVars, wireVars, provVars>>

-----------------------------------------------------------------------------
(* Bounds *)

MaxLen == 2         \* longest endpoint list handed to difference
MaxChanges == 3     \* longest Vec<Change> handed to Changes::from
MaxUpdates == 2     \* longest updateOld / updateNew array of a received batch
MaxOther == 2       \* longest create / delete array of a received batch
MaxTasks == 2       \* requests the server handles at the same time
MaxRequests == 3    \* requests the server receives in a run
MaxDesired == 2     \* longest endpoint list a caller reconciles to

-----------------------------------------------------------------------------
(* Endpoint model: lib.rs 22-66 *)

\* EndpointIdent { dns_name, record_type, set_identifier }
EndpointIdent ==
    { [dns_name |-> "update.org.", record_type |-> "A", set_identifier |-> ""],
      [dns_name |-> "delete.org.", record_type |-> "A", set_identifier |-> ""],
      [dns_name |-> "update.org.", record_type |-> "AAAA", set_identifier |-> ""] }

UpdateIdent == [dns_name |-> "update.org.", record_type |-> "A", set_identifier |-> ""]

\* Endpoint { identity, targets, record_ttl, labels, provider_specific }.
\* labels is a HashMap: a set of key/value pairs, compared without order.
MkEndpoint(id, targets, ttl, labels, ps) ==
    [identity |-> id, targets |-> targets, record_ttl |-> ttl,
     labels |-> labels, provider_specific |-> ps]

BaseEndpoint(id) == MkEndpoint(id, <<"192.168.0.1">>, 300, {}, <<>>)

\* The endpoints the runs draw from: every identity once, and one identity
\* varied in each of the remaining fields.
Endpoint ==
    { BaseEndpoint(id) : id \in EndpointIdent }
    \cup { MkEndpoint(UpdateIdent, <<"192.168.0.2">>, 300, {}, <<>>),
           MkEndpoint(UpdateIdent, <<"192.168.0.1">>, 60, {}, <<>>),
           MkEndpoint(UpdateIdent, <<"192.168.0.1">>, 300, {<<"owner", "me">>}, <<>>),
           MkEndpoint(UpdateIdent, <<"192.168.0.1">>, 300, {},
                      <<[name |-> "alias", value |-> "true"]>>) }

SeqsUpTo(S, n) == UNION { [1..k -> S] : k \in 0..n }

\* Change::Update { old, new } | Change::Delete(Endpoint) | Change::Create(Endpoint)
Update(old, new) == [tag |-> "Update", old |-> old, new |-> new]
Delete(endpoint) == [tag |-> "Delete", endpoint |-> endpoint]
Create(endpoint) == [tag |-> "Create", endpoint |-> endpoint]

\* struct Changes { create, update_old, update_new, delete }
MkChanges(create, update_old, update_new, delete) ==
    [create |-> create, update_old |-> update_old,
     update_new |-> update_new, delete |-> delete]

\* let mut out = Changes { create: vec![], update_old: vec![], ... }
NoChanges == MkChanges(<<>>, <<>>, <<>>, <<>>)

\* Values of the wire variables while nothing is held in them.
NoDomain == [base |-> FALSE, path |-> <<>>]
NoRequest == [method |-> "", path |-> <<>>, body |-> "", content_type |-> "", accept |-> ""]
NoReturn == [ok |-> FALSE, value |-> ""]
NoResponse == [status |-> 0, body |-> ""]
NoResult == [ok |-> FALSE, error |-> "", status |-> 0, payload |-> ""]

\* A JSON array or null, and the JSON text of a Changes batch: null, or an
\* object whose four members are each an array or null.
JsonArray(items) == [null |-> FALSE, items |-> items]
JsonNullMember == [null |-> TRUE, items |-> <<>>]
JsonObject(c, uo, un, d) ==
    [null |-> FALSE, create |-> c, updateOld |-> uo, updateNew |-> un, delete |-> d]
JsonNull ==
    [null |-> TRUE, create |-> JsonNullMember, updateOld |-> JsonNullMember,
     updateNew |-> JsonNullMember, delete |-> JsonNullMember]

\* The tasks the server runs requests on, and a task that holds no request.
Tasks == 1..MaxTasks

IdleTask ==
    [pc |-> "idle", op |-> "", body |-> JsonNull, seen |-> <<>>, reconcile |-> FALSE,
     desired |-> <<>>, invoked |-> FALSE, args |-> <<>>, queue |-> <<>>, index |-> 0,
     response |-> NoResponse, result |-> <<>>]

NoTasks == [t \in Tasks |-> IdleTask]

Range(s) == { s[i] : i \in DOMAIN s }

\* Every order in which an unordered collection can be iterated.
Orders(S) ==
    { s \in [1..Cardinality(S) -> S] : \A i, j \in DOMAIN s : i # j => s[i] # s[j] }

-----------------------------------------------------------------------------
(* Diff engine: lib.rs 157-199 *)

\* HashMap::insert: the entry for the key is replaced.
Insert(map, key, val) ==
    [k \in DOMAIN map \cup {key} |-> IF k = key THEN val ELSE map[k]]

\* A map that keeps the first endpoint inserted for a key.
RECURSIVE FromIterFirstWins(_)
FromIterFirstWins(list) ==
    IF list = <<>> THEN <<>>
    ELSE LET rest == FromIterFirstWins(Tail(list))
         IN  Insert(rest, Head(list).identity, Head(list))

\* HashMap::from_iter over (endpoint.identity, endpoint): inserts in list order.
RECURSIVE FromIter(_)
FromIter(list) ==
    IF list = <<>> THEN <<>>
    ELSE LET n == Len(list)
         IN  Insert(FromIter(SubSeq(list, 1, n - 1)), list[n].identity, list[n])

\* Creates taken from the wrong key difference: the lookup in `new` finds nothing.
CreatesWrongSide(old, new) ==
    { Create(new[id]) : id \in (DOMAIN old \ DOMAIN new) \cap DOMAIN new }

\* new_keys.difference(&old_keys) mapped to Change::Create
Creates(old, new) == { Create(new[id]) : id \in DOMAIN new \ DOMAIN old }

\* Deletes for every current key, whether or not desired still holds it.
DeletesEveryKey(old, new) == { Delete(old[id]) : id \in DOMAIN old }

\* old_keys.difference(&new_keys) mapped to Change::Delete
Deletes(old, new) == { Delete(old[id]) : id \in DOMAIN old \ DOMAIN new }

\* Equality that looks at identity and targets only.
EndpointEqTargets(a, b) == a.identity = b.identity /\ a.targets = b.targets

\* old == new (derived PartialEq over every field of Endpoint)
EndpointEq(a, b) == a = b

\* Updates without the `old == new` early return.
UpdatesUnfiltered(old, new) ==
    { Update(old[id], new[id]) : id \in DOMAIN old \cap DOMAIN new }

\* old_keys.intersection(&new_keys), dropping the identities whose endpoints are equal
Updates(old, new) ==
    { Update(old[id], new[id]) :
        id \in { k \in DOMAIN old \cap DOMAIN new : ~EndpointEq(old[k], new[k]) } }

\* The groups chained in the order they are computed: creates, deletes, updates.
ChainAsComputed(deletes, updates, creates) ==
    { c \o d \o u : d \in Orders(deletes), u \in Orders(updates), c \in Orders(creates) }

\* deletes.chain(updates).chain(creates).collect(): the lists difference can
\* return; the order inside a group is the hash sets' iteration order.
Chain(deletes, updates, creates) ==
    { d \o u \o c : d \in Orders(deletes), u \in Orders(updates), c \in Orders(creates) }

difference(self, other) ==
    LET old == FromIter(self)
        new == FromIter(other)
    IN  Chain(Deletes(old, new), Updates(old, new), Creates(old, new))

-----------------------------------------------------------------------------
(* Runs of the diff engine *)

InitDiff ==
    /\ pc = "diff"
    /\ current \in SeqsUpTo(Endpoint, MaxLen)
    /\ desired \in SeqsUpTo(Endpoint, MaxLen)
    /\ changes = <<>> /\ swapped = <<>> /\ unionDiff = <<>>
    /\ value = <<>> /\ batch = NoChanges /\ out = <<>>
    /\ domain = NoDomain /\ call = "" /\ request = NoRequest
    /\ invoked = "" /\ returned = NoReturn /\ response = NoResponse
    /\ result = NoResult
    /\ inner = <<>> /\ task = NoTasks /\ serial = FALSE /\ arrived = 0

\* current.difference(desired)
Difference ==
    /\ pc = "diff"
    /\ changes' \in difference(current, desired)
    /\ pc' = "diffed"
    /\ UNCHANGED <<current, desired, swapped, unionDiff, convVars, wireVars, provVars>>

\* desired.difference(current), after current.difference(desired)
DifferenceSwapped ==
    /\ pc = "diffed"
    /\ swapped' \in difference(desired, current)
    /\ pc' = "swapped"
    /\ UNCHANGED <<current, desired, changes, unionDiff, convVars, wireVars, provVars>>

\* current.difference(current ++ desired)
DifferenceUnion ==
    /\ pc = "diff"
    /\ unionDiff' \in difference(current, current \o desired)
    /\ pc' = "unioned"
    /\ UNCHANGED <<current, desired, changes, swapped, convVars, wireVars, provVars>>

NextDiff == Difference \/ DifferenceSwapped \/ DifferenceUnion

SpecDiff == InitDiff /\ [][NextDiff]_vars

-----------------------------------------------------------------------------
(* Properties of the diff engine *)

Identities(list) == { list[i].identity : i \in DOMAIN list }

\* The endpoint a list holds for an identity: the last one listed.
Held(list, id) ==
    list[CHOOSE i \in DOMAIN list :
            /\ list[i].identity = id
            /\ \A j \in DOMAIN list : list[j].identity = id => j <= i]

\* The identity a change is about.
ChangeIdent(c) == IF c.tag = "Update" THEN c.old.identity ELSE c.endpoint.identity

IdentsOf(list, tag) == { ChangeIdent(list[i]) : i \in { j \in DOMAIN list : list[j].tag = tag } }

HasRepeat(list) == \E i, j \in DOMAIN list : i < j /\ list[i].identity = list[j].identity

\* current.difference(desired) has returned.
Diffed == pc \in {"diffed", "swapped"}

\* C1: a list diffed against itself, repeated identities included, gives the
\* empty change list.
C1_Idempotence ==
    (Diffed /\ current = desired) => changes = <<>>

C1_Witness ==
    /\ Diffed /\ current = desired
    /\ \E i, j \in DOMAIN current :
          i < j /\ current[i].identity = current[j].identity /\ current[i] # current[j]

GroupRank(c) == CASE c.tag = "Delete" -> 0 [] c.tag = "Update" -> 1 [] c.tag = "Create" -> 2

Grouped(list) == \A i, j \in DOMAIN list : i < j => GroupRank(list[i]) <= GroupRank(list[j])

\* C2: in every list difference returns, every Delete precedes every Update
\* and every Update precedes every Create.
C2_GroupOrder ==
    /\ Diffed => Grouped(changes)
    /\ pc = "swapped" => Grouped(swapped)
    /\ pc = "unioned" => Grouped(unionDiff)

C2_Witness ==
    /\ Diffed
    /\ {changes[i].tag : i \in DOMAIN changes} = {"Delete", "Update", "Create"}

\* C3: an identity held by both lists gets exactly one change, the Update from
\* current's endpoint to desired's endpoint, when the two endpoints differ in
\* some field, and no change at all when they are equal in every field.
C3_UpdateIffDifferent ==
    Diffed =>
        \A id \in Identities(current) \cap Identities(desired) :
            LET old == Held(current, id)
                new == Held(desired, id)
                about == { i \in DOMAIN changes : ChangeIdent(changes[i]) = id }
            IN  IF old = new
                THEN about = {}
                ELSE /\ Cardinality(about) = 1
                     /\ \A i \in about :
                           /\ changes[i] = Update(old, new)
                           /\ changes[i].old.identity = changes[i].new.identity

\* An update caused by a field other than targets, next to an equal pair.
C3_Witness ==
    /\ Diffed
    /\ \E i \in DOMAIN changes :
          /\ changes[i].tag = "Update"
          /\ changes[i].old.targets = changes[i].new.targets
          /\ changes[i].old.record_ttl # changes[i].new.record_ttl

\* One Create for each endpoint of `added`, carrying it, and nothing else.
OneCreatePerElement(list, added) ==
    /\ \A e \in Range(added) : Cardinality({ i \in DOMAIN list : list[i] = Create(e) }) = 1
    /\ \A i \in DOMAIN list : list[i].tag = "Create" /\ list[i].endpoint \in Range(added)
    /\ Len(list) = Cardinality(Range(added))

DisjointIdentities == Identities(current) \cap Identities(desired) = {}

\* C4 as stated: for A = current and B = desired with disjoint identity sets,
\* A.difference(A ++ B) is exactly one Create for each element of B.
C4_Completeness_Stated ==
    (pc = "unioned" /\ DisjointIdentities) => OneCreatePerElement(unionDiff, desired)

\* No identity is listed with two different endpoints.
SingleValued(list) ==
    \A i, j \in DOMAIN list : list[i].identity = list[j].identity => list[i] = list[j]

\* C4 as amended: for A = current and B = desired with disjoint identity sets,
\* where B lists no identity with two different endpoints, A.difference(A ++ B)
\* is exactly one Create for each element of B and nothing else.
C4_Completeness ==
    (pc = "unioned" /\ DisjointIdentities /\ SingleValued(desired))
        => OneCreatePerElement(unionDiff, desired)

C4_Witness ==
    /\ pc = "unioned" /\ DisjointIdentities /\ SingleValued(desired)
    /\ Len(current) = 2 /\ HasRepeat(current) /\ ~SingleValued(current)
    /\ Cardinality(Identities(desired)) = 2
    /\ Len(unionDiff) = 2

\* C5: the identities A.difference(B) deletes are the identities
\* B.difference(A) creates, and the identities A.difference(B) creates are the
\* identities B.difference(A) deletes.
C5_Symmetry ==
    pc = "swapped" =>
        /\ IdentsOf(changes, "Delete") = IdentsOf(swapped, "Create")
        /\ IdentsOf(changes, "Create") = IdentsOf(swapped, "Delete")

C5_Witness ==
    /\ pc = "swapped"
    /\ IdentsOf(changes, "Delete") # {} /\ IdentsOf(changes, "Create") # {}
    /\ IdentsOf(changes, "Update") # {}

\* The list reduced to the last endpoint listed for each identity, in list order.
RECURSIVE LastOnly(_)
LastOnly(list) ==
    IF list = <<>> THEN <<>>
    ELSE IF \E j \in 2..Len(list) : list[j].identity = Head(list).identity
         THEN LastOnly(Tail(list))
         ELSE <<Head(list)>> \o LastOnly(Tail(list))

\* C14: with an identity repeated inside current or desired, difference
\* returns what it returns for the two lists reduced to the last endpoint of
\* each identity, and at most one change is about any identity.
C14_LastWriteWins ==
    Diffed =>
        /\ changes \in difference(LastOnly(current), LastOnly(desired))
        /\ \A i, j \in DOMAIN changes :
              ChangeIdent(changes[i]) = ChangeIdent(changes[j]) => i = j

\* Both sides repeat an identity with different endpoints and an Update results.
C14_Witness ==
    /\ Diffed
    /\ HasRepeat(current) /\ ~SingleValued(current)
    /\ HasRepeat(desired) /\ ~SingleValued(desired)
    /\ Len(changes) = 1 /\ changes[1].tag = "Update"
    /\ changes[1].old = current[Len(current)] /\ changes[1].old # current[1]
    /\ changes[1].new = desired[Len(desired)] /\ changes[1].new # desired[1]

-----------------------------------------------------------------------------
(* Batch conversions: lib.rs 94-143 *)

\* Both arms of the Update match push `old`.
PushChangeOldTwice(acc, change) ==
    CASE change.tag = "Update" ->
            [acc EXCEPT !.update_old = Append(@, change.old),
                        !.update_new = Append(@, change.old)]
      [] change.tag = "Delete" -> [acc EXCEPT !.delete = Append(@, change.endpoint)]
      [] change.tag = "Create" -> [acc EXCEPT !.create = Append(@, change.endpoint)]

\* The body of `for change in value { match change { ... } }`
PushChange(acc, change) ==
    CASE change.tag = "Update" ->
            [acc EXCEPT !.update_old = Append(@, change.old),
                        !.update_new = Append(@, change.new)]
      [] change.tag = "Delete" -> [acc EXCEPT !.delete = Append(@, change.endpoint)]
      [] change.tag = "Create" -> [acc EXCEPT !.create = Append(@, change.endpoint)]

\* impl From<Vec<Change>> for Changes
RECURSIVE ChangesFrom(_)
ChangesFrom(list) ==
    IF list = <<>> THEN NoChanges
    ELSE LET n == Len(list)
         IN  PushChange(ChangesFrom(SubSeq(list, 1, n - 1)), list[n])

\* The last entry of update_new with the identity, <<>> when there is none.
RECURSIVE FindLast(_, _)
FindLast(update_new, identity) ==
    IF update_new = <<>> THEN <<>>
    ELSE LET n == Len(update_new)
         IN  IF update_new[n].identity = identity THEN <<update_new[n]>>
             ELSE FindLast(SubSeq(update_new, 1, n - 1), identity)

\* changes.update_new.iter().find(|new| new.identity == old.identity).cloned():
\* <<new>> for Some(new), <<>> for None.
RECURSIVE Find(_, _)
Find(update_new, identity) ==
    IF update_new = <<>> THEN <<>>
    ELSE IF Head(update_new).identity = identity THEN <<Head(update_new)>>
    ELSE Find(Tail(update_new), identity)

\* `for old in changes.update_old { if let Some(new) = ... { out.push(Update) } }`
RECURSIVE PairUpdates(_, _)
PairUpdates(update_old, update_new) ==
    IF update_old = <<>> THEN <<>>
    ELSE LET old == Head(update_old)
             found == Find(update_new, old.identity)
             rest == PairUpdates(Tail(update_old), update_new)
         IN  IF found # <<>> THEN <<Update(old, found[1])>> \o rest ELSE rest

\* impl From<Changes> for Vec<Change>
VecFrom(c) ==
    [i \in 1..Len(c.delete) |-> Delete(c.delete[i])]
    \o PairUpdates(c.update_old, c.update_new)
    \o [i \in 1..Len(c.create) |-> Create(c.create[i])]

-----------------------------------------------------------------------------
(* Runs of the conversions *)

\* The endpoints and changes the conversion runs draw from.
ConvEndpoint ==
    { BaseEndpoint(UpdateIdent),
      MkEndpoint(UpdateIdent, <<"192.168.0.2">>, 300, {}, <<>>),
      BaseEndpoint([dns_name |-> "delete.org.", record_type |-> "A", set_identifier |-> ""]) }

\* The endpoints the create and delete arrays of a received batch draw from.
OtherEndpoint == { e \in ConvEndpoint : e.targets = <<"192.168.0.1">> }

ConvChange ==
    { Create(e) : e \in ConvEndpoint } \cup { Delete(e) : e \in ConvEndpoint }
    \cup { Update(o, n) : o \in ConvEndpoint, n \in ConvEndpoint }

\* Either a change list about to be sent (Client::set_records) or a batch
\* received off the wire (the set_records handler).
InitConv ==
    /\ \/ /\ pc = "list"
          /\ value \in SeqsUpTo(ConvChange, MaxChanges)
          /\ batch = NoChanges
       \/ /\ pc = "received"
          /\ value = <<>>
          /\ \E c, d \in SeqsUpTo(OtherEndpoint, MaxOther),
                uo, un \in SeqsUpTo(ConvEndpoint, MaxUpdates) :
                batch = MkChanges(c, uo, un, d)
    /\ out = <<>>
    /\ current = <<>> /\ desired = <<>>
    /\ changes = <<>> /\ swapped = <<>> /\ unionDiff = <<>>
    /\ domain = NoDomain /\ call = "" /\ request = NoRequest
    /\ invoked = "" /\ returned = NoReturn /\ response = NoResponse
    /\ result = NoResult
    /\ inner = <<>> /\ task = NoTasks /\ serial = FALSE /\ arrived = 0

\* Changes::from(value)
IntoChanges ==
    /\ pc = "list"
    /\ batch' = ChangesFrom(value)
    /\ pc' = "converted"
    /\ UNCHANGED <<value, out, diffVars, wireVars, provVars>>

\* Vec::<Change>::from(batch)
IntoVec ==
    /\ pc \in {"converted", "received"}
    /\ out' = VecFrom(batch)
    /\ pc' = IF pc = "converted" THEN "roundtrip" ELSE "decoded"
    /\ UNCHANGED <<value, batch, diffVars, wireVars, provVars>>

NextConv == IntoChanges \/ IntoVec

SpecConv == InitConv /\ [][NextConv]_vars

-----------------------------------------------------------------------------
(* Properties of the conversions *)

Count(list, x) == Cardinality({ i \in DOMAIN list : list[i] = x })

\* Both lists hold the same multiset of changes of the kind.
SameEntries(a, b, tag) ==
    \A c \in { x \in Range(a) \cup Range(b) : x.tag = tag } : Count(a, c) = Count(b, c)

\* The index of the first entry of the list with the identity, 0 when none has it.
FirstWith(list, identity) ==
    IF \E j \in DOMAIN list : list[j].identity = identity
    THEN CHOOSE j \in DOMAIN list :
            /\ list[j].identity = identity
            /\ \A k \in 1..(j - 1) : list[k].identity # identity
    ELSE 0

EveryOldMatched(c) ==
    \A i \in DOMAIN c.update_old : FirstWith(c.update_new, c.update_old[i].identity) # 0

RoundTripped == pc = "roundtrip"

\* C6 as stated: list -> batch -> list keeps the multiset of Creates and of
\* Deletes, and keeps the Updates whenever every updateOld identity has a
\* matching updateNew identity.
C6_RoundTrip_Stated ==
    RoundTripped =>
        /\ SameEntries(value, out, "Create")
        /\ SameEntries(value, out, "Delete")
        /\ EveryOldMatched(batch) => SameEntries(value, out, "Update")

\* For every Update, the first updateNew entry with the identity of its old is
\* an endpoint equal to its own new.
EveryOldFindsOwnNew(c) ==
    \A i \in DOMAIN c.update_old :
        LET j == FirstWith(c.update_new, c.update_old[i].identity)
        IN  j # 0 /\ c.update_new[j] = c.update_new[i]

\* C6 as amended: list -> batch -> list keeps the multiset of Creates and of
\* Deletes, and keeps the Updates whenever, for every Update, the first
\* updateNew entry with the identity of its old equals that Update's own new.
C6_RoundTrip ==
    RoundTripped =>
        /\ SameEntries(value, out, "Create")
        /\ SameEntries(value, out, "Delete")
        /\ EveryOldFindsOwnNew(batch) => SameEntries(value, out, "Update")

\* A list that is reordered by the round trip and holds two Updates.
C6_Witness ==
    /\ RoundTripped /\ EveryOldFindsOwnNew(batch)
    /\ Len(batch.update_old) = 2
    /\ batch.update_old[1].identity # batch.update_old[2].identity
    /\ value[1].tag = "Create"
    /\ out # value

\* The k-th smallest member of a set of indices.
Kth(M, k) == CHOOSE i \in M : Cardinality({ m \in M : m < i }) = k - 1

\* C7: batch -> list gives the Deletes in delete order, then, for each
\* updateOld entry in order that has an identity match in updateNew, the
\* Update to the first updateNew entry with that identity (unmatched entries
\* give nothing), then the Creates in create order.
C7_PairByIdentity ==
    pc \in {"decoded", "roundtrip"} =>
        LET matched == { i \in DOMAIN batch.update_old :
                            FirstWith(batch.update_new, batch.update_old[i].identity) # 0 }
            nd == Len(batch.delete)
            nu == Cardinality(matched)
            nc == Len(batch.create)
        IN  /\ Len(out) = nd + nu + nc
            /\ \A i \in 1..nd : out[i] = Delete(batch.delete[i])
            /\ \A k \in 1..nu :
                  LET old == batch.update_old[Kth(matched, k)]
                  IN  out[nd + k] =
                        Update(old, batch.update_new[FirstWith(batch.update_new, old.identity)])
            /\ \A i \in 1..nc : out[nd + nu + i] = Create(batch.create[i])

\* A received batch where pairing by position would differ, one updateOld
\* entry has no match, and two updateNew entries share an identity.
C7_Witness ==
    /\ pc = "decoded"
    /\ Len(batch.update_old) = 2 /\ Len(batch.update_new) = 2
    /\ batch.update_new[1].identity = batch.update_new[2].identity
    /\ batch.update_new[1] # batch.update_new[2]
    /\ batch.update_old[1].identity # batch.update_new[1].identity
    /\ batch.update_old[2].identity = batch.update_new[1].identity
    /\ Len(batch.delete) = 2 /\ batch.delete[1] # batch.delete[2]
    /\ Len(batch.create) = 2 /\ batch.create[1] # batch.create[2]
    /\ Len(out) = 5

-----------------------------------------------------------------------------
(* Wire values *)

\* "application/external.dns.webhook+json;version=1": client.rs 113, 166, 184, 186
WebhookMediaType == "application/external.dns.webhook+json;version=1"

\* Bodies on the wire.  The JSON texts stand for any text of that shape.
EndpointsJson == "[{\"dnsName\":\"update.org.\"}]"
ChangesJson == "{\"create\":[],\"updateOld\":[],\"updateNew\":[],\"delete\":[]}"
FiltersJson == "{\"filters\":[]}"
NullJson == "null"
InvalidBytes == "<bytes that are not UTF-8>"
ReplacedText == "<U+FFFD>"

\* String::from_utf8(payload).is_ok()
IsUtf8(body) == body # InvalidBytes

\* String::from_utf8_lossy / Response::text: invalid bytes are replaced.
Lossy(body) == IF IsUtf8(body) THEN body ELSE ReplacedText

\* serde_json::from_str::<T>(body): the value read, "" when the text is not a T.
FromJson(body, T) ==
    CASE T = "Vec<Endpoint>" /\ body = EndpointsJson -> "endpoints"
      [] T = "Changes" /\ body = ChangesJson -> "changes"
      [] T = "DomainFilter" /\ body = FiltersJson -> "filters"
      [] T = "()" /\ body = NullJson -> "()"
      [] OTHER -> ""

\* serde_json::to_string / axum::Json of a value
ToJson(v) ==
    CASE v = "endpoints" -> EndpointsJson
      [] v = "changes" -> ChangesJson
      [] v = "filters" -> FiltersJson
      [] v = "()" -> NullJson

\* StatusCode::is_success
IsSuccess(status) == status >= 200 /\ status <= 299

-----------------------------------------------------------------------------
(* Client: client.rs 59-192 *)

\* Url::parse(domain): the e2e prefix "http://localhost:12333" (path "/"), the
\* documented "http://localhost:9998/external-dns", the same with a trailing
\* slash, and a URL that cannot be a base.  A path is its list of segments.
RootDomain == [base |-> TRUE, path |-> <<"">>]

Domains ==
    { RootDomain,
      [base |-> TRUE, path |-> <<"external-dns">>],
      [base |-> TRUE, path |-> <<"external-dns", "">>],
      [base |-> FALSE, path |-> <<"nobody@example.org">>] }

\* Url::join of one relative segment: it replaces the last segment of the base.
Join(url, segment) == SubSeq(url.path, 1, Len(url.path) - 1) \o <<segment>>

ClientOps == {"init", "healthz", "get_records", "set_records", "adjust_endpoints"}

\* The relative reference each operation joins to the domain; init uses the
\* domain itself.
Joined(op) ==
    CASE op = "healthz" -> "healthz"
      [] op = "get_records" -> "records"
      [] op = "set_records" -> "records"
      [] op = "adjust_endpoints" -> "adjustendpoints"

\* get_records sending its media type as Content-Type instead of Accept.
ClientRequestTyped(op, url) ==
    CASE op = "init" ->
            [method |-> "GET", path |-> url.path, body |-> "",
             content_type |-> "", accept |-> ""]
      [] op = "healthz" ->
            [method |-> "GET", path |-> Join(url, Joined(op)), body |-> "",
             content_type |-> "", accept |-> ""]
      [] op = "set_records" ->
            [method |-> "POST", path |-> Join(url, Joined(op)), body |-> ToJson("changes"),
             content_type |-> WebhookMediaType, accept |-> ""]
      [] op = "get_records" ->
            [method |-> "GET", path |-> Join(url, Joined(op)), body |-> "",
             content_type |-> WebhookMediaType, accept |-> ""]
      [] op = "adjust_endpoints" ->
            [method |-> "POST", path |-> Join(url, Joined(op)), body |-> ToJson("endpoints"),
             content_type |-> WebhookMediaType, accept |-> WebhookMediaType]

\* The request each operation builds.
ClientRequest(op, url) ==
    CASE op = "init" ->
            [method |-> "GET", path |-> url.path, body |-> "",
             content_type |-> "", accept |-> ""]
      [] op = "healthz" ->
            [method |-> "GET", path |-> Join(url, Joined(op)), body |-> "",
             content_type |-> "", accept |-> ""]
      [] op = "set_records" ->
            [method |-> "POST", path |-> Join(url, Joined(op)), body |-> ToJson("changes"),
             content_type |-> WebhookMediaType, accept |-> ""]
      [] op = "get_records" ->
            [method |-> "GET", path |-> Join(url, Joined(op)), body |-> "",
             content_type |-> "", accept |-> WebhookMediaType]
      [] op = "adjust_endpoints" ->
            [method |-> "POST", path |-> Join(url, Joined(op)), body |-> ToJson("endpoints"),
             content_type |-> WebhookMediaType, accept |-> WebhookMediaType]

Ok(payload) == [ok |-> TRUE, error |-> "", status |-> 0, payload |-> payload]
Err(error, status, payload) ==
    [ok |-> FALSE, error |-> error, status |-> status, payload |-> payload]

\* Client::parse_response::<T>
ParseResponse(resp, T) ==
    IF ~IsUtf8(resp.body) THEN Err("InvalidUtf8", 0, "")
    ELSE IF IsSuccess(resp.status)
         THEN IF FromJson(resp.body, T) # ""
              THEN Ok(FromJson(resp.body, T))
              ELSE Err("Deserialization", 0, resp.body)
         ELSE Err("Webhook", resp.status, resp.body)

\* What each operation makes of the response it received.
Decode(op, resp) ==
    CASE op = "init" ->
            IF FromJson(resp.body, "DomainFilter") # ""
            THEN Ok(FromJson(resp.body, "DomainFilter"))
            ELSE Err("Reqwest", 0, "")
      [] op = "healthz" -> Ok(Lossy(resp.body))
      [] op = "set_records" ->
            IF IsSuccess(resp.status) THEN Ok("()")
            ELSE Err("Webhook", resp.status, Lossy(resp.body))
      [] op = "get_records" -> ParseResponse(resp, "Vec<Endpoint>")
      [] op = "adjust_endpoints" -> ParseResponse(resp, "Vec<Endpoint>")

-----------------------------------------------------------------------------
(* Dispatcher: provider.rs 64-132 *)

\* Router::new().route(...): serve binds four routes, all at the root.
Routes ==
    { [path |-> <<"healthz">>, method |-> "GET", handler |-> "healthz"],
      [path |-> <<"getRecords">>, method |-> "GET", handler |-> "get_records"],
      [path |-> <<"setRecords">>, method |-> "POST", handler |-> "set_records"],
      [path |-> <<"adjustEndpoints">>, method |-> "POST", handler |-> "adjust_endpoints"] }

\* The handler the router gives the request to, or the status it answers itself.
RouteOf(req) ==
    IF \E r \in Routes : r.path = req.path /\ r.method = req.method
    THEN [handler |-> (CHOOSE r \in Routes : r.path = req.path /\ r.method = req.method).handler,
          status |-> 0]
    ELSE IF \E r \in Routes : r.path = req.path
         THEN [handler |-> "", status |-> 405]
         ELSE [handler |-> "", status |-> 404]

\* The type a handler's Json extractor reads, "" for the handlers without one.
Extracted(handler) ==
    CASE handler = "set_records" -> "Changes"
      [] handler = "adjust_endpoints" -> "Vec<Endpoint>"
      [] OTHER -> ""

\* Json<T>: the status the extractor rejects the request with, 0 when it accepts.
Rejection(handler, req) ==
    IF Extracted(handler) = "" THEN 0
    ELSE IF req.content_type \notin {"application/json", WebhookMediaType} THEN 415
    ELSE IF req.body = "" THEN 400
    ELSE IF FromJson(req.body, Extracted(handler)) = "" THEN 422
    ELSE 0

RejectionText == "<rejection text>"

\* What a provider capability can return: Ok(value) or Err(error).
ProviderError == {"boom"}

Returns(handler) ==
    { [ok |-> FALSE, value |-> e] : e \in ProviderError }
    \cup { [ok |-> TRUE,
            value |-> CASE handler = "healthz" -> "ok"
                        [] handler = "get_records" -> "endpoints"
                        [] handler = "set_records" -> "()"
                        [] handler = "adjust_endpoints" -> "endpoints"] }

\* Handlers that answer a failed capability with the error text under status 200.
HandlerResponseAlwaysOk(handler, ret) ==
    IF ret.ok
    THEN [status |-> 200, body |-> IF handler = "healthz" THEN ret.value ELSE ToJson(ret.value)]
    ELSE [status |-> 200, body |-> ret.value]

\* The match in healthz / get_records / set_records / adjust_endpoints.
HandlerResponse(handler, ret) ==
    IF ret.ok
    THEN [status |-> 200, body |-> IF handler = "healthz" THEN ret.value ELSE ToJson(ret.value)]
    ELSE [status |-> 500, body |-> ret.value]

-----------------------------------------------------------------------------
(* Runs of the client against a webhook server *)

Init ==
    /\ pc = "idle"
    /\ domain \in Domains
    /\ call = "" /\ request = NoRequest
    /\ invoked = "" /\ returned = NoReturn /\ response = NoResponse
    /\ result = NoResult
    /\ current = <<>> /\ desired = <<>>
    /\ changes = <<>> /\ swapped = <<>> /\ unionDiff = <<>>
    /\ value = <<>> /\ batch = NoChanges /\ out = <<>>
    /\ inner = <<>> /\ task = NoTasks /\ serial = FALSE /\ arrived = 0

\* A client operation builds and sends its request.  With a domain that cannot
\* be a base, domain.join(..)? returns Error::Url, and init, which sends to the
\* domain itself, fails in reqwest before anything is sent.
ClientCall(op) ==
    /\ pc = "idle"
    /\ call' = op
    /\ IF ~domain.base
       THEN /\ result' = Err(IF op = "init" THEN "Reqwest" ELSE "Url", 0, "")
            /\ pc' = "returned"
            /\ UNCHANGED request
       ELSE /\ request' = ClientRequest(op, domain)
            /\ pc' = "sent"
            /\ UNCHANGED result
    /\ UNCHANGED <<domain, invoked, returned, response, diffVars, convVars, provVars>>

\* The requests another driver of the protocol sends to the server.
DriverRequests ==
    { [method |-> m, path |-> p, body |-> b, content_type |-> c, accept |-> WebhookMediaType] :
        m \in {"GET", "POST"},
        p \in { r.path : r \in Routes } \cup { <<"records">> },
        b \in {"", ChangesJson, EndpointsJson, NullJson},
        c \in {"", WebhookMediaType} }

DriverSends ==
    /\ pc = "idle"
    /\ call' = "driver"
    /\ request' \in DriverRequests
    /\ pc' = "sent"
    /\ UNCHANGED <<domain, invoked, returned, response, result, diffVars, convVars, provVars>>

\* .send().await? fails in transport.
SendFails ==
    /\ pc = "sent" /\ call \in ClientOps
    /\ result' = Err("Reqwest", 0, "")
    /\ pc' = "returned"
    /\ UNCHANGED <<domain, call, request, invoked, returned, response, diffVars, convVars, provVars>>

\* The server started by serve handles the request: the router picks the
\* handler, its extractor reads the body, the capability runs and the handler
\* turns what it returned into the response.
Serve ==
    /\ pc = "sent"
    /\ LET route == RouteOf(request)
       IN  IF route.handler = ""
           THEN /\ response' = [status |-> route.status, body |-> ""]
                /\ UNCHANGED <<invoked, returned>>
           ELSE IF Rejection(route.handler, request) # 0
           THEN /\ response' = [status |-> Rejection(route.handler, request),
                                 body |-> RejectionText]
                /\ UNCHANGED <<invoked, returned>>
           ELSE \E ret \in Returns(route.handler) :
                    /\ invoked' = route.handler
                    /\ returned' = ret
                    /\ response' = HandlerResponse(route.handler, ret)
    /\ pc' = "served"
    /\ UNCHANGED <<domain, call, request, result, diffVars, convVars, provVars>>

\* Some other webhook server answers the client.
RemoteStatus == {200, 204, 404, 500}
RemoteBody == {"", "ok", "boom", EndpointsJson, FiltersJson, NullJson, InvalidBytes}

RemoteResponds ==
    /\ pc = "sent" /\ call \in ClientOps
    /\ response' \in [status : RemoteStatus, body : RemoteBody]
    /\ pc' = "answered"
    /\ UNCHANGED <<domain, call, request, invoked, returned, result, diffVars, convVars, provVars>>

\* The client operation turns the response into its return value.
ClientReturns ==
    /\ pc \in {"served", "answered"} /\ call \in ClientOps
    /\ result' = Decode(call, response)
    /\ pc' = "returned"
    /\ UNCHANGED <<domain, call, request, invoked, returned, response, diffVars, convVars, provVars>>

Next ==
    \/ \E op \in ClientOps : ClientCall(op)
    \/ DriverSends
    \/ SendFails
    \/ Serve
    \/ RemoteResponds
    \/ ClientReturns

Spec == Init /\ [][Next]_vars

-----------------------------------------------------------------------------
(* Properties of the client and the dispatcher *)

\* C8: a client operation called with the e2e prefix against the server
\* started by serve is dispatched to the provider capability of the same name.
C8_ClientReachesCapability ==
    (pc = "served" /\ call \in ClientOps /\ domain = RootDomain) => invoked = call

\* C9: whenever a client operation received a response whose status is not
\* 2xx, it returns Error::Webhook with that status and the body text, whatever
\* the body is.
C9_NonSuccessIsWebhookError ==
    (pc = "returned" /\ response.status # 0 /\ ~IsSuccess(response.status)) =>
        result = Err("Webhook", response.status, Lossy(response.body))

\* C10: whenever the dispatcher invoked healthz, get_records, set_records or
\* adjust_endpoints, the response is 500 with the error's display text as body
\* if the capability returned an error, and 200 if it returned success.
C10_ProviderResultToStatus ==
    invoked \in {"healthz", "get_records", "set_records", "adjust_endpoints"} =>
        IF returned.ok
        THEN response.status = 200
        ELSE response.status = 500 /\ response.body = returned.value

C10_Witness ==
    /\ pc = "served"
    /\ invoked = "set_records"
    /\ ~returned.ok /\ returned.value \in ProviderError
    /\ response.status = 500

\* C13: a client request without payload (init, healthz, get_records) has no
\* body and no Content-Type; a request with payload (set_records,
\* adjust_endpoints) has the webhook media type as Content-Type.
C13_ContentTypeIffPayload ==
    (call \in ClientOps /\ request # NoRequest) =>
        /\ call \in {"init", "healthz", "get_records"} =>
              request.body = "" /\ request.content_type = ""
        /\ call \in {"set_records", "adjust_endpoints"} =>
              request.body # "" /\ request.content_type = WebhookMediaType

C13_Witness ==
    /\ pc = "sent" /\ call = "get_records"
    /\ request.accept = WebhookMediaType /\ request.content_type = ""

-----------------------------------------------------------------------------
(* The example in-memory provider behind the dispatcher:                    *)
(* tests/e2e.rs 14-99, provider.rs 104-132, client.rs 101-126               *)

\* The endpoints the provider runs draw from: three identities, one of them
\* with two different endpoints.
ProvEndpoint ==
    ConvEndpoint
    \cup { BaseEndpoint([dns_name |-> "update.org.", record_type |-> "AAAA",
                         set_identifier |-> ""]) }

\* The endpoint lists a caller reconciles to: no identity listed twice.  The
\* runs with requests in parallel draw from two of the three identities.
DesiredLists ==
    { l \in SeqsUpTo(IF serial THEN ProvEndpoint ELSE ConvEndpoint, MaxDesired) :
        ~HasRepeat(l) }

\* serde_json::to_string(&Changes::from(changes)): four arrays under their
\* camelCase names, never null.
SerializeChanges(c) ==
    JsonObject(JsonArray(c.create), JsonArray(c.update_old),
               JsonArray(c.update_new), JsonArray(c.delete))

\* Json<Changes>: Changes derives Deserialize with four Vec<Endpoint> fields
\* and no default, so null in place of the object or of an array is an error.
DeserializeChanges(body) ==
    IF body.null \/ body.create.null \/ body.updateOld.null
       \/ body.updateNew.null \/ body.delete.null
    THEN [ok |-> FALSE, value |-> NoChanges]
    ELSE [ok |-> TRUE,
          value |-> MkChanges(body.create.items, body.updateOld.items,
                              body.updateNew.items, body.delete.items)]

\* The texts of a null batch and of a batch whose arrays are each null or empty.
EmptyBatchBodies ==
    { JsonNull }
    \cup { JsonObject(c, uo, un, d) :
             c \in {JsonNullMember, JsonArray(<<>>)},
             uo \in {JsonNullMember, JsonArray(<<>>)},
             un \in {JsonNullMember, JsonArray(<<>>)},
             d \in {JsonNullMember, JsonArray(<<>>)} }

\* find_index: the position of the first stored endpoint with the needle's
\* identity, counted from 1; 0 for None.
FindIndexOf(store, identity) == FirstWith(store, identity)

\* Vec::remove(index)
Remove(store, index) ==
    SubSeq(store, 1, index - 1) \o SubSeq(store, index + 1, Len(store))

\* An Update that stores the old endpoint again.
WrittenOld(store, index, change) ==
    IF change.tag = "Update"
    THEN [store EXCEPT ![index] = change.old]
    ELSE Remove(store, index)

\* `inner.write().await[index] = new` and `inner.write().await.remove(index)`
Written(store, index, change) ==
    IF change.tag = "Update"
    THEN [store EXCEPT ![index] = change.new]
    ELSE Remove(store, index)

\* The task is between the arrival of a request and its response.
Busy(t) == task[t].pc \in {"apply", "write", "read"}

\* A request can arrive on an idle task; a caller that awaits each response
\* sends it only when no other request is being handled.
MayArrive(t) ==
    /\ pc = "provider"
    /\ task[t].pc = "idle"
    /\ arrived < MaxRequests
    /\ serial => \A u \in Tasks : task[u].pc = "idle"

\* The set_records handler: the extractor rejects the body, or the batch is
\* converted and handed to DebugProvider::set_records.
SetRecordsHandler(t, body, reconcile, want) ==
    LET de == DeserializeChanges(body)
    IN  IF de.ok
        THEN [IdleTask EXCEPT !.pc = "apply", !.op = "set_records", !.body = body,
                              !.seen = inner, !.reconcile = reconcile,
                              !.desired = want, !.invoked = TRUE,
                              !.args = VecFrom(de.value), !.queue = VecFrom(de.value)]
        ELSE [IdleTask EXCEPT !.pc = "responded", !.op = "set_records", !.body = body,
                              !.seen = inner, !.reconcile = reconcile,
                              !.desired = want,
                              !.response = [status |-> 422, body |-> RejectionText]]

InitProvider ==
    /\ pc = "provider"
    /\ inner = <<>> /\ task = NoTasks /\ arrived = 0
    /\ serial = FALSE
    /\ current = <<>> /\ desired = <<>>
    /\ changes = <<>> /\ swapped = <<>> /\ unionDiff = <<>>
    /\ value = <<>> /\ batch = NoChanges /\ out = <<>>
    /\ domain = NoDomain /\ call = "" /\ request = NoRequest
    /\ invoked = "" /\ returned = NoReturn /\ response = NoResponse
    /\ result = NoResult

\* The end-to-end test's caller: every call is awaited before the next.
InitReconcile ==
    /\ pc = "provider"
    /\ inner = <<>> /\ task = NoTasks /\ arrived = 0
    /\ serial = TRUE
    /\ current = <<>> /\ desired = <<>>
    /\ changes = <<>> /\ swapped = <<>> /\ unionDiff = <<>>
    /\ value = <<>> /\ batch = NoChanges /\ out = <<>>
    /\ domain = NoDomain /\ call = "" /\ request = NoRequest
    /\ invoked = "" /\ returned = NoReturn /\ response = NoResponse
    /\ result = NoResult

\* A caller reconciles the records the provider holds to a desired list: a
\* setRecords POST whose body is current.difference(desired) serialized as
\* Client::set_records serializes it.
ReceiveReconcile(t) ==
    /\ MayArrive(t)
    /\ \E want \in DesiredLists :
         \E list \in difference(inner, want) :
            task' = [task EXCEPT ![t] =
                        SetRecordsHandler(t, SerializeChanges(ChangesFrom(list)), TRUE, want)]
    /\ arrived' = arrived + 1
    /\ UNCHANGED <<pc, inner, serial, diffVars, convVars, wireVars>>

\* A setRecords POST from another caller with a null or empty batch.
ReceiveBatch(t) ==
    /\ MayArrive(t)
    /\ \E body \in EmptyBatchBodies :
         task' = [task EXCEPT ![t] = SetRecordsHandler(t, body, FALSE, <<>>)]
    /\ arrived' = arrived + 1
    /\ UNCHANGED <<pc, inner, serial, diffVars, convVars, wireVars>>

\* The adjust_endpoints handler calls DebugProvider::adjust_endpoints, which
\* diffs a clone of the store, taken under the read lock, against the list.
ReceiveAdjustEndpoints(t) ==
    /\ MayArrive(t)
    /\ \E want \in DesiredLists :
         \E list \in difference(inner, want) :
            task' = [task EXCEPT ![t] =
                        [IdleTask EXCEPT !.pc = "apply", !.op = "adjust_endpoints",
                                         !.seen = inner, !.desired = want,
                                         !.invoked = TRUE, !.args = list, !.queue = list]]
    /\ arrived' = arrived + 1
    /\ UNCHANGED <<pc, inner, serial, diffVars, convVars, wireVars>>

\* Update and Delete: find_index under the read lock, released on return.
FindIndex(t) ==
    /\ pc = "provider"
    /\ task[t].pc = "apply"
    /\ task[t].queue # <<>>
    /\ Head(task[t].queue).tag \in {"Update", "Delete"}
    /\ LET index == FindIndexOf(inner, ChangeIdent(Head(task[t].queue)))
       IN  task' = [task EXCEPT ![t] =
                       IF index = 0
                       THEN [@ EXCEPT !.queue = Tail(@)]
                       ELSE [@ EXCEPT !.pc = "write", !.index = index]]
    /\ UNCHANGED <<pc, inner, serial, arrived, diffVars, convVars, wireVars>>

\* Update and Delete: the write lock is taken and the found index used; an
\* index past the end panics and the task ends without a response.
WriteIndex(t) ==
    /\ pc = "provider"
    /\ task[t].pc = "write"
    /\ IF task[t].index > Len(inner)
       THEN /\ task' = [task EXCEPT ![t] = [@ EXCEPT !.pc = "panicked"]]
            /\ UNCHANGED inner
       ELSE /\ inner' = Written(inner, task[t].index, Head(task[t].queue))
            /\ task' = [task EXCEPT ![t] =
                           [@ EXCEPT !.pc = "apply", !.index = 0, !.queue = Tail(@)]]
    /\ UNCHANGED <<pc, serial, arrived, diffVars, convVars, wireVars>>

\* Create: `inner.write().await.push(endpoint)`
Push(t) ==
    /\ pc = "provider"
    /\ task[t].pc = "apply"
    /\ task[t].queue # <<>>
    /\ Head(task[t].queue).tag = "Create"
    /\ inner' = Append(inner, Head(task[t].queue).endpoint)
    /\ task' = [task EXCEPT ![t] = [@ EXCEPT !.queue = Tail(@)]]
    /\ UNCHANGED <<pc, serial, arrived, diffVars, convVars, wireVars>>

\* DebugProvider::set_records returns Ok(()): the handler answers, or
\* adjust_endpoints goes on to get_records.
SetRecordsReturns(t) ==
    /\ pc = "provider"
    /\ task[t].pc = "apply"
    /\ task[t].queue = <<>>
    /\ task' = [task EXCEPT ![t] =
                   IF @.op = "adjust_endpoints"
                   THEN [@ EXCEPT !.pc = "read"]
                   ELSE [@ EXCEPT !.pc = "responded",
                                  !.response = HandlerResponse("set_records",
                                                   [ok |-> TRUE, value |-> "()"])]]
    /\ UNCHANGED <<pc, inner, serial, arrived, diffVars, convVars, wireVars>>

\* DebugProvider::get_records at the end of adjust_endpoints: a clone of the
\* store under the read lock, answered by the handler.
GetRecords(t) ==
    /\ pc = "provider"
    /\ task[t].pc = "read"
    /\ task' = [task EXCEPT ![t] =
                   [@ EXCEPT !.pc = "responded", !.result = inner,
                             !.response = HandlerResponse("adjust_endpoints",
                                              [ok |-> TRUE, value |-> "endpoints"])]]
    /\ UNCHANGED <<pc, inner, serial, arrived, diffVars, convVars, wireVars>>

\* The response has been sent and the task ends.
TaskEnds(t) ==
    /\ pc = "provider"
    /\ task[t].pc = "responded"
    /\ task' = [task EXCEPT ![t] = IdleTask]
    /\ UNCHANGED <<pc, inner, serial, arrived, diffVars, convVars, wireVars>>

NextProvider ==
    \E t \in Tasks :
        \/ ReceiveReconcile(t)
        \/ ReceiveBatch(t)
        \/ ReceiveAdjustEndpoints(t)
        \/ FindIndex(t)
        \/ WriteIndex(t)
        \/ Push(t)
        \/ SetRecordsReturns(t)
        \/ GetRecords(t)
        \/ TaskEnds(t)

\* Requests handled concurrently.
SpecProvider == InitProvider /\ [][NextProvider]_vars

\* Requests handled one at a time.
SpecReconcile == InitReconcile /\ [][NextProvider]_vars

-----------------------------------------------------------------------------
(* Properties of the provider behind the dispatcher *)

\* C11: a setRecords POST whose batch is null, or whose four arrays are each
\* null or empty, is accepted: set_records is invoked with an empty change
\* list, the status is 2xx and the store is as it was when the request came.
C11_EmptyBatchAccepted ==
    \A t \in Tasks :
        (/\ task[t].pc = "responded"
         /\ task[t].op = "set_records"
         /\ task[t].body \in EmptyBatchBodies) =>
            /\ task[t].invoked
            /\ task[t].args = <<>>
            /\ IsSuccess(task[t].response.status)
            /\ inner = task[t].seen

\* C12: with requests handled one at a time, when
\* set_records(current.difference(desired)) has been answered for a store
\* that held current without a repeated identity, get_records returns the
\* endpoints of desired, each once; so after each of several such steps.
C12_Reconciled ==
    \A t \in Tasks :
        (/\ serial
         /\ task[t].pc = "responded"
         /\ task[t].reconcile
         /\ ~HasRepeat(task[t].seen)) =>
            /\ IsSuccess(task[t].response.status)
            /\ Len(inner) = Len(task[t].desired)
            /\ Range(inner) = Range(task[t].desired)

\* A later reconcile step deleted one endpoint, updated another and created a
\* third, as the end-to-end test's second step does.
C12_Witness ==
    /\ serial
    /\ arrived > 1
    /\ \E t \in Tasks :
         /\ task[t].pc = "responded"
         /\ task[t].reconcile
         /\ Len(task[t].seen) = 2
         /\ \E i, j, k \in DOMAIN task[t].args :
              /\ task[t].args[i].tag = "Delete"
              /\ task[t].args[j].tag = "Update"
              /\ task[t].args[k].tag = "Create"
         /\ inner = task[t].desired

\* C15: under every interleaving, when a task is about to take the write lock
\* for an Update or a Delete, the index it found under the read lock is within
\* the store and the endpoint there has the identity of the change.
C15_IndexStillDesignates ==
    \A t \in Tasks :
        task[t].pc = "write" =>
            /\ task[t].index <= Len(inner)
            /\ inner[task[t].index].identity = ChangeIdent(Head(task[t].queue))

====
